---- MODULE Spec2Model ----
(***************************************************************************)
(* The tool-augmented conversation loop of the four research agents:       *)
(*   run_jiminy_agent   (src/jiminy.py)   Local dispatch: the loop calls   *)
(*                                        the job endpoint itself;         *)
(*   run_pubmed_agent   (src/main.py)     Delegated dispatch: the          *)
(*   run_research_agent (src/research.py) inference service runs the tools *)
(*   run_scholar_agent  (src/scholar.py)  and embeds call and result.      *)
(* One behaviour of the model is one call of one of the four functions.    *)
(* Of the progress printing (verbose) the model keeps what can raise: in    *)
(* run_jiminy_agent the join of the keys before the call and the look at   *)
(* the result after it, in run_pubmed_agent and run_research_agent the     *)
(* joins of the identifiers of an mcp_tool_use block.                      *)
(***************************************************************************)
EXTENDS Integers, Sequences, FiniteSets, TLC

\* ------------------------------------------------------------- bounds
\* The ceiling of the loop; the source sets max_iterations = 20, and a run
\* here picks its ceiling in 1..MaxIterations.
MaxIterations == 2
\* The largest number of content blocks in one inference response.
MaxBlocks == 2
\* The largest number of calls of one run_*_agent function in one process.
MaxRuns == 2

\* ---------------------------------------------------------- constants
Question == "Q"
Sentinel == "Error: Maximum iterations reached without completing the research."
Continuation == "Please continue analyzing the results and provide your answer."
NoTokenMessage == "Error: SCHOLAR_GATEWAY_TOKEN not set. Please configure your OAuth token."

Variants == {"jiminy", "pubmed", "research", "scholar"}
Delegated == {"pubmed", "research", "scholar"}

\* ---------------------------------------------- inference call arguments
\* system=SYSTEM_PROMPT of the function's module
SystemPrompt(v) == "SYSTEM_PROMPT of " \o v
\* tools=: the names in JIMINY_TOOLS, or the mcp_server_name of each toolset
Tools(v) ==
    IF v = "jiminy"
        THEN <<"search_papers", "get_paper_details", "list_recent_papers",
               "get_database_stats", "generate_bibliography">>
    ELSE IF v = "pubmed" THEN <<"pubmed">>
    ELSE IF v = "research" THEN <<"pubmed", "paper_rag", "scholar_gateway">>
    ELSE <<"scholar_gateway">>
\* mcp_servers=: built once before the loop, with the tokens read then
McpServers(v, tok) ==
    IF v = "jiminy" THEN <<>>
    ELSE IF v = "pubmed" THEN <<[name |-> "pubmed"]>>
    ELSE IF v = "research"
        THEN <<[name |-> "pubmed"],
               [name |-> "paper_rag", authorization_token |-> "PAPERRAG_API_KEY"],
               [name |-> "scholar_gateway", authorization_token |-> tok]>>
    ELSE <<[name |-> "scholar_gateway", authorization_token |-> tok]>>

\* mutant: only the newest message is sent
CreateRequestNewestOnly(v, tok, msgs) ==
    [system |-> SystemPrompt(v), tools |-> Tools(v), mcp_servers |-> McpServers(v, tok),
     messages |-> <<msgs[Len(msgs)]>>]

\* The keyword arguments of client.messages.create / client.beta.messages.create
CreateRequest(v, tok, msgs) ==
    [system |-> SystemPrompt(v), tools |-> Tools(v), mcp_servers |-> McpServers(v, tok),
     messages |-> msgs]
NoRequest == [system |-> "", tools |-> <<>>, mcp_servers |-> <<>>, messages |-> <<>>]

\* ------------------------------------------------- inference responses
Texts == {"42"}
ToolUseIds == {"toolu_a", "toolu_b"}
McpToolUseIds == {"mcptoolu_a"}
StopReasons == {"end_turn", "tool_use", "max_tokens"}

TextBlock(t) == [type |-> "text", text |-> t]
\* A tool_use block: its id, the tool's name and the arguments.
ToolUseBlockOf(i, name, input) ==
    [type |-> "tool_use", id |-> i, name |-> name, input |-> input]
QueryInput == [query |-> "crispr"]
ToolUseBlock(i) == ToolUseBlockOf(i, "search_papers", QueryInput)
McpToolUseBlockOf(i, name, input) ==
    [type |-> "mcp_tool_use", id |-> i, name |-> name, input |-> input]
McpToolUseBlock(i) == McpToolUseBlockOf(i, "search_articles", QueryInput)
McpToolResultBlock(i) == [type |-> "mcp_tool_result", tool_use_id |-> i]

\* What messages.create (tools=JIMINY_TOOLS) can answer with.
LocalBlocks ==
    {TextBlock(t) : t \in Texts} \cup {ToolUseBlock(i) : i \in ToolUseIds}

\* What beta.messages.create with an mcp_toolset can answer with.
DelegatedBlocks ==
    {TextBlock(t) : t \in Texts}
        \cup {McpToolUseBlock(i) : i \in McpToolUseIds}
        \cup {McpToolResultBlock(i) : i \in McpToolUseIds}

HasId(b) == b.type \in {"tool_use", "mcp_tool_use"}

\* The service gives every tool-use block of one response its own id.
UniqueIds(c) ==
    \A i, j \in 1..Len(c) :
        (i # j /\ HasId(c[i]) /\ HasId(c[j])) => c[i].id # c[j].id

\* Two further answers, whose text reads like the abort message.
SentinelContents ==
    {<<TextBlock(Sentinel)>>, <<TextBlock(Sentinel), TextBlock("42")>>}

Contents(B) ==
    {c \in UNION {[1..n -> B] : n \in 0..MaxBlocks} : UniqueIds(c)}
        \cup SentinelContents

BlocksOf(v) == IF v = "jiminy" THEN LocalBlocks ELSE DelegatedBlocks

Responses(v) ==
    {[stop_reason |-> s, content |-> c] : s \in StopReasons, c \in Contents(BlocksOf(v))}

NoResponse == [stop_reason |-> "none", content |-> <<>>]

\* ------------------------------------------------------- job endpoint
\* What one POST /runsync can come to: an exception out of the with block
\* (transport error, raise_for_status, response.json), or a parsed JSON
\* object, a function from the keys it holds to their values.
Exception(m) == [kind |-> "exception", message |-> m]
Json(body) == [kind |-> "json", body |-> body]

\* Python values of the output field, tagged with their type.
PyDict(d) == [py |-> "dict", d |-> d]
PyNone == [py |-> "None"]
PyInt(n) == [py |-> "int", n |-> n]
PyString(v) == [py |-> "str", v |-> v]
PyList(items) == [py |-> "list", items |-> items]
EmptyDict == PyDict(<<>>)
\* A mapping whose values are strings, but for the keys of t: t gives the
\* type of the value under each of those.
PyDictTyped(d, t) == [py |-> "dict", d |-> d, t |-> t]
TypeOfKey(output, key) ==
    IF "t" \in DOMAIN output /\ key \in DOMAIN output.t THEN output.t[key] ELSE "str"
\* type(x).__name__
TypeName(x) == IF x.py = "None" THEN "NoneType" ELSE x.py

\* sub in s, for two strings
Contains(s, sub) ==
    \E i \in 1..(Len(s) - Len(sub) + 1) : SubSeq(s, i, i + Len(sub) - 1) = sub

\* dict.get(key, default)
Get(body, key, default) == IF key \in DOMAIN body THEN body[key] ELSE default

\* str(output) of the mappings the model draws
PyStr(output) ==
    IF output.py = "None" THEN "None"
    ELSE IF output.py = "int" THEN "<int>"
    ELSE IF DOMAIN output.d = {} THEN "{}"
    ELSE IF DOMAIN output.d = {"data"} THEN "{'data': '" \o output.d.data \o "'}"
    ELSE "<dict>"

\* What a call comes to: a returned value with its type, or an exception
\* with its message.
Returned(v) == [raised |-> FALSE, value |-> v, py |-> "str"]
ReturnedAs(v, type) == [raised |-> FALSE, value |-> v, py |-> type]
Raised(m) == [raised |-> TRUE, value |-> m, py |-> "str"]

\* The three tests of an output that is not a mapping: "result" in output,
\* "error" in output, str(output). On a string, in looks for a substring
\* and output["result"] raises; on None or a number, in raises.
NonMappingOutput(output) ==
    IF output.py = "str"
        THEN IF Contains(output.v, "result") \/ Contains(output.v, "error")
                THEN Raised("string indices must be integers, not 'str'")
                ELSE Returned(output.v)
        ELSE Raised("argument of type '" \o TypeName(output) \o "' is not iterable")

\* status.lower().replace('_', ' ')
JobStatusWords(status) == IF status = "IN_QUEUE" THEN "in queue" ELSE "in progress"

\* mutant: output.error is looked at before output.result
call_jiminy_tool_ErrorFirst(r) ==
    IF r.kind = "exception" THEN Raised(r.message)
    ELSE
        LET result == r.body
            status == Get(result, "status", "<None>")
            output == Get(result, "output", EmptyDict)
        IN  IF status = "FAILED"
                THEN Returned("Error: " \o Get(result, "error", "Unknown error"))
            ELSE IF status \in {"IN_QUEUE", "IN_PROGRESS"}
                THEN Returned("Error: Job " \o JobStatusWords(status) \o " - try again later")
            ELSE IF output.py # "dict" THEN NonMappingOutput(output)
            ELSE IF "error" \in DOMAIN output.d THEN Returned("Error: " \o output.d.error)
            ELSE IF "result" \in DOMAIN output.d
                THEN ReturnedAs(output.d.result, TypeOfKey(output, "result"))
            ELSE Returned(PyStr(output))

\* call_jiminy_tool: what the call comes to, given what the endpoint did.
call_jiminy_tool(r) ==
    IF r.kind = "exception" THEN Raised(r.message)
    ELSE
        LET result == r.body
            status == Get(result, "status", "<None>")
            output == Get(result, "output", EmptyDict)
        IN  IF status = "FAILED"
                THEN Returned("Error: " \o Get(result, "error", "Unknown error"))
            ELSE IF status \in {"IN_QUEUE", "IN_PROGRESS"}
                THEN Returned("Error: Job " \o JobStatusWords(status) \o " - try again later")
            ELSE IF output.py # "dict" THEN NonMappingOutput(output)
            ELSE IF "result" \in DOMAIN output.d
                THEN ReturnedAs(output.d.result, TypeOfKey(output, "result"))
            ELSE IF "error" \in DOMAIN output.d THEN Returned("Error: " \o output.d.error)
            ELSE Returned(PyStr(output))

EndpointReplies ==
    { Exception("timed out"),
      Json([status |-> "COMPLETED", output |-> PyDict([result |-> "{\"results\": []}"])]) }

NoReply == [kind |-> "none"]

\* The bodies the endpoint can send: every choice of status, error and
\* output, each key present or not.
Absent == "<absent>"
AbsentOutput == [py |-> "absent"]
Body(status, error, output) ==
    [k \in ({"status" : x \in {status} \ {Absent}}
                \cup {"error" : x \in {error} \ {Absent}}
                \cup {"output" : x \in {output} \ {AbsentOutput}})
        |-> IF k = "status" THEN status ELSE IF k = "error" THEN error ELSE output]

Statuses == {Absent, "COMPLETED", "FAILED", "IN_QUEUE", "IN_PROGRESS"}
Errors == {Absent, "boom"}
Mappings ==
    { EmptyDict,
      PyDict([result |-> "found"]),
      PyDict([error |-> "bad query"]),
      PyDict([result |-> "found", error |-> "bad query"]),
      PyDict([data |-> "x"]) }
Outputs ==
    {AbsentOutput} \cup Mappings
        \cup {PyNone, PyInt(7), PyString("no papers"), PyString("no result")}

AllReplies ==
    {Exception("timed out")}
        \cup {Json(Body(st, er, out)) : st \in Statuses, er \in Errors, out \in Outputs}

\* A few of them, for whole runs.
LoopReplies ==
    { Exception("timed out"),
      Json(Body("COMPLETED", Absent, PyDict([result |-> "found"]))),
      Json(Body("COMPLETED", Absent, PyDict([error |-> "bad query"]))),
      Json(Body("COMPLETED", Absent, EmptyDict)),
      Json(Body("IN_QUEUE", Absent, AbsentOutput)),
      Json(Body("IN_PROGRESS", Absent, AbsentOutput)),
      Json(Body("FAILED", "boom", AbsentOutput)),
      Json(Body("FAILED", Absent, AbsentOutput)) }

\* The responses of the runs that draw from LoopReplies and AllReplies.
LoopResponses ==
    {[stop_reason |-> s, content |-> c] :
        s \in StopReasons,
        c \in { <<TextBlock("42")>>,
                <<ToolUseBlock("toolu_a")>>,
                <<ToolUseBlock("toolu_b"), ToolUseBlock("toolu_a")>> }}
CallResponses == {[stop_reason |-> "tool_use", content |-> <<ToolUseBlock("toolu_a")>>]}

VARIABLES
    earlier,            \* the length of the transcript each earlier run of
                        \* the function in this process ended with
    variant,            \* which of the four run_*_agent functions runs
    token,              \* SCHOLAR_GATEWAY_TOKEN is set
    verbose,            \* the verbose argument of the function
    max_iterations,     \* the ceiling of the loop
    pc,                 \* where the run is
    messages,           \* the transcript
    iteration,          \* the loop counter
    response,           \* the response being processed
    idx,                \* position of the for loop in response.content
    assistant_content,
    tool_results,
    has_tool_use,
    final_text,
    ret,                \* the returned string, once pc is a returning state
    calls,              \* inference calls made
    invocations,        \* requests sent to the job endpoint
    reply,              \* observer: what the last request to the job
                        \* endpoint came to
    history,            \* observer: per response received, its text and
                        \* whether it held a tool-use block of the
                        \* variant's kind
    request             \* observer: the arguments of the last inference call

vars == <<earlier, variant, token, verbose, max_iterations, pc, messages, iteration,
          response, idx, assistant_content, tool_results, has_tool_use, final_text,
          ret, calls, invocations, reply, history, request>>

\* --------------------------------------------------- observers (history)
\* The text of a response: its text blocks, joined in response order.
RECURSIVE TextOf(_)
TextOf(c) ==
    IF c = <<>> THEN ""
    ELSE TextOf(SubSeq(c, 1, Len(c) - 1))
            \o (IF c[Len(c)].type = "text" THEN c[Len(c)].text ELSE "")

\* The block type that makes a response a tool-use response in variant v.
OwnToolUseType(v) == IF v = "jiminy" THEN "tool_use" ELSE "mcp_tool_use"
ContainsToolUse(v, c) == \E i \in 1..Len(c) : c[i].type = OwnToolUseType(v)
Observed(v, r) == [text |-> TextOf(r.content), tool_use |-> ContainsToolUse(v, r.content)]

\* ------------------------------------------------------------------ Init
\* The state after messages = [{"role": "user", "content": question}].
\* Only run_scholar_agent branches on the token. verbose has its default,
\* as in the call each main() makes.
InitWith(verboses) ==
    /\ earlier = <<>>
    /\ variant \in Variants
    /\ token \in (IF variant = "scholar" THEN BOOLEAN ELSE {TRUE})
    /\ verbose \in verboses
    /\ max_iterations \in 1..MaxIterations
    /\ pc = (IF variant = "scholar" THEN "entry" ELSE "while")
    /\ messages = <<[role |-> "user", content |-> Question]>>
    /\ iteration = 0
    /\ response = NoResponse
    /\ idx = 0
    /\ assistant_content = <<>>
    /\ tool_results = <<>>
    /\ has_tool_use = FALSE
    /\ final_text = ""
    /\ ret = ""
    /\ calls = 0
    /\ invocations = 0
    /\ reply = NoReply
    /\ history = <<>>
    /\ request = NoRequest

Init == InitWith({TRUE})

\* ------------------------------------------------- pieces of the loops
\* mutant: while True
LoopConditionAlways(it, max) == TRUE

\* mutant: the loop test off by one
LoopConditionOffByOne(it, max) == it <= max

\* while iteration < max_iterations
LoopCondition(it, max) == it < max

\* mutant: assistant_content leaves the tool-result blocks out
AppendBlockWithoutResults(content, block) ==
    IF block.type = "mcp_tool_result" THEN content ELSE Append(content, block)

\* assistant_content.append(block)
AppendBlock(content, block) == Append(content, block)

\* mutant: tool_results.insert(0, ...)
CollectResultInFront(results, r) == <<r>> \o results

\* tool_results.append(...)
CollectResult(results, r) == Append(results, r)

\* mutant: final_text = block.text
AccumulateTextOverwrite(text, block) == block.text

\* mutant: final_text = block.text + final_text
AccumulateTextReversed(text, block) == block.text \o text

\* final_text += block.text
AccumulateText(text, block) == text \o block.text

\* mutant: the test without "and not has_tool_use"
EndTurnOnly(stop_reason, tool_use) == stop_reason = "end_turn"

\* if response.stop_reason == "end_turn" and not has_tool_use
EndTurnWithoutToolUse(stop_reason, tool_use) == stop_reason = "end_turn" /\ ~tool_use

\* the dict appended when call_jiminy_tool returned
ToolResult(block, result) ==
    [type |-> "tool_result", tool_use_id |-> block.id, content |-> result]

\* mutant: the error result carries the block's type where its id belongs
ToolResultErrorWrongId(block, e) ==
    [type |-> "tool_result", tool_use_id |-> block.type,
     content |-> "Error calling tool: " \o e, is_error |-> TRUE]

\* mutant: the error result without "is_error": True
ToolResultErrorUnflagged(block, e) ==
    [type |-> "tool_result", tool_use_id |-> block.id,
     content |-> "Error calling tool: " \o e]

\* the dict appended when call_jiminy_tool raised
ToolResultError(block, e) ==
    [type |-> "tool_result", tool_use_id |-> block.id,
     content |-> "Error calling tool: " \o e, is_error |-> TRUE]

\* mutant: one user message per tool result
AppendToolTurnSplit(msgs, content, results) ==
    msgs \o <<[role |-> "assistant", content |-> content]>>
         \o [j \in 1..Len(results) |-> [role |-> "user", content |-> <<results[j]>>]]

\* mutant: the transcript keeps the question and the latest turn only
AppendToolTurnTruncating(msgs, content, results) ==
    <<msgs[1]>> \o <<[role |-> "assistant", content |-> content],
                     [role |-> "user", content |-> results]>>

\* messages.append(assistant); messages.append(user with the tool results)
AppendToolTurn(msgs, content, results) ==
    msgs \o <<[role |-> "assistant", content |-> content],
              [role |-> "user", content |-> results]>>

\* mutant: the assistant turn without the instruction after it
AppendAssistantOnly(msgs, content) ==
    msgs \o <<[role |-> "assistant", content |-> content]>>

\* messages.append(assistant); messages.append(user with the instruction)
AppendContinuation(msgs, content) ==
    msgs \o <<[role |-> "assistant", content |-> content],
              [role |-> "user", content |-> Continuation]>>

\* -------------------------------------------------- run_jiminy_agent
\* The loop test and iteration += 1, or the return after the loop.
JiminyWhile ==
    /\ variant = "jiminy"
    /\ pc = "while"
    /\ IF LoopCondition(iteration, max_iterations)
          THEN /\ iteration' = iteration + 1
               /\ pc' = "create"
               /\ ret' = ret
          ELSE /\ iteration' = iteration
               /\ pc' = "aborted"
               /\ ret' = Sentinel
    /\ UNCHANGED <<earlier, variant, token, verbose, request,
                   max_iterations, messages, response, idx,
                   assistant_content, tool_results, has_tool_use, final_text,
                   calls, invocations, reply, history>>

\* mutant: the exception of client.messages.create is swallowed and the
\* loop goes round again
JiminyCreateCatching(responses) ==
    /\ variant = "jiminy"
    /\ pc = "create"
    /\ calls' = calls + 1
    /\ \/ \E r \in responses :
            /\ response' = r
            /\ history' = Append(history, Observed(variant, r))
            /\ assistant_content' = <<>>
            /\ tool_results' = <<>>
            /\ has_tool_use' = FALSE
            /\ final_text' = ""
            /\ idx' = 1
            /\ pc' = "for"
       \/ /\ pc' = "while"
          /\ UNCHANGED <<response, history, assistant_content, tool_results,
                         has_tool_use, final_text, idx>>
    /\ request' = CreateRequest(variant, token, messages)
    /\ UNCHANGED <<earlier, variant, token, verbose, max_iterations, messages, iteration,
                   ret,
                   invocations, reply>>

\* client.messages.create: a response, or an exception that nothing catches.
JiminyCreateFrom(responses) ==
    /\ variant = "jiminy"
    /\ pc = "create"
    /\ calls' = calls + 1
    /\ \/ \E r \in responses :
            /\ response' = r
            /\ history' = Append(history, Observed(variant, r))
            /\ assistant_content' = <<>>
            /\ tool_results' = <<>>
            /\ has_tool_use' = FALSE
            /\ final_text' = ""
            /\ idx' = 1
            /\ pc' = "for"
       \/ /\ pc' = "raised"
          /\ UNCHANGED <<response, history, assistant_content, tool_results,
                         has_tool_use, final_text, idx>>
    /\ request' = CreateRequest(variant, token, messages)
    /\ UNCHANGED <<earlier, variant, token, verbose, max_iterations, messages, iteration,
                   ret,
                   invocations, reply>>

JiminyCreate == JiminyCreateFrom(Responses(variant))

\* mutant: a job that is queued or in progress is asked for again
JiminyBlockRetrying(replies) ==
    /\ variant = "jiminy"
    /\ pc = "for"
    /\ idx <= Len(response.content)
    /\ LET block == response.content[idx] IN
        \/ /\ block.type = "text"
           /\ assistant_content' = AppendBlock(assistant_content, block)
           /\ final_text' = AccumulateText(final_text, block)
           /\ idx' = idx + 1
           /\ UNCHANGED <<has_tool_use, tool_results, invocations, reply>>
        \/ /\ block.type = "tool_use"
           /\ has_tool_use' = TRUE
           /\ \E r \in replies :
                 /\ reply' = r
                 /\ invocations' = invocations + 1
                 /\ IF r.kind = "json"
                        /\ Get(r.body, "status", "<None>") \in {"IN_QUEUE", "IN_PROGRESS"}
                       THEN UNCHANGED <<assistant_content, tool_results, idx>>
                       ELSE /\ assistant_content' = AppendBlock(assistant_content, block)
                            /\ idx' = idx + 1
                            /\ LET outcome == call_jiminy_tool(r) IN
                                tool_results' =
                                    CollectResult(tool_results,
                                           IF outcome.raised
                                               THEN ToolResultError(block, outcome.value)
                                               ELSE ToolResult(block, outcome.value))
           /\ UNCHANGED final_text
    /\ UNCHANGED <<earlier, variant, token, verbose, request,
                   max_iterations, pc, messages, iteration,
                   response, ret, calls, history>>

\* if verbose: the prints before the call, outside the try. Of these only
\* ', '.join(keys[:5]) of generate_bibliography can raise: keys that cannot
\* be sliced, or one of the first five that is not a string.
PrintCallRaises(block) ==
    /\ block.name = "generate_bibliography"
    /\ LET keys == Get(block.input, "bibtex_keys", PyList(<<>>))
       IN  IF keys.py = "list"
               THEN \E i \in 1..Len(keys.items) : i <= 5 /\ keys.items[i].py # "str"
               ELSE keys.py # "str"

\* if verbose: the look at the result inside the try. For search_papers
\* json.loads(result) raises TypeError on a result that is not a string,
\* and the handler's test "No results" in result raises again on None and
\* on a number.
PrintResultRaises(block, outcome) ==
    /\ block.name = "search_papers"
    /\ outcome.py \in {"NoneType", "int", "float", "bool"}

\* The try statement around the call: the dict appended to tool_results.
TryCall(block, r, verb) ==
    LET outcome == call_jiminy_tool(r) IN
    IF outcome.raised
        THEN ToolResultError(block, outcome.value)
    ELSE IF verb /\ PrintResultRaises(block, outcome)
        THEN ToolResultError(block,
                "argument of type '" \o outcome.py \o "' is not iterable")
    ELSE ToolResult(block, outcome.value)

\* One pass of the body of: for block in response.content; the request to
\* the job endpoint comes to one of replies.
JiminyBlockWith(replies) ==
    /\ variant = "jiminy"
    /\ pc = "for"
    /\ idx <= Len(response.content)
    /\ LET block == response.content[idx] IN
        /\ assistant_content' = AppendBlock(assistant_content, block)
        /\ \/ /\ block.type = "text"
              /\ final_text' = AccumulateText(final_text, block)
              /\ UNCHANGED <<pc, has_tool_use, tool_results, invocations, reply>>
           \/ /\ block.type = "tool_use"
              /\ has_tool_use' = TRUE
              /\ IF verbose /\ PrintCallRaises(block)
                    THEN /\ pc' = "print_raised"
                         /\ UNCHANGED <<tool_results, invocations, reply>>
                    ELSE /\ \E r \in replies :
                               /\ reply' = r
                               /\ invocations' = invocations + 1
                               /\ tool_results' =
                                     CollectResult(tool_results, TryCall(block, r, verbose))
                         /\ UNCHANGED pc
              /\ UNCHANGED final_text
           \/ /\ block.type \notin {"text", "tool_use"}
              /\ UNCHANGED <<pc, final_text, has_tool_use, tool_results, invocations,
                             reply>>
    /\ idx' = idx + 1
    /\ UNCHANGED <<earlier, variant, token, verbose, request,
                   max_iterations, messages, iteration,
                   response, ret, calls, history>>

JiminyBlock == JiminyBlockWith(EndpointReplies)

\* After the for loop: return the text, or append the two turns and loop.
JiminyCheck ==
    /\ variant = "jiminy"
    /\ pc = "for"
    /\ idx > Len(response.content)
    /\ IF EndTurnWithoutToolUse(response.stop_reason, has_tool_use)
          THEN /\ pc' = "done"
               /\ ret' = final_text
               /\ UNCHANGED messages
          ELSE IF has_tool_use
          THEN /\ messages' = AppendToolTurn(messages, assistant_content, tool_results)
               /\ pc' = "while"
               /\ UNCHANGED ret
          ELSE /\ pc' = "done"
               /\ ret' = final_text
               /\ UNCHANGED messages
    /\ UNCHANGED <<earlier, variant, token, verbose, request,
                   max_iterations, iteration, response, idx,
                   assistant_content, tool_results, has_tool_use, final_text,
                   calls, invocations, reply, history>>

\* ------------- run_pubmed_agent, run_research_agent, run_scholar_agent
\* The three Delegated loops are the same statements; they differ in what
\* they print and in the servers they name.

\* mutant: the loop is entered without a token
ScholarTokenIgnored ==
    /\ variant = "scholar"
    /\ pc = "entry"
    /\ pc' = "while"
    /\ UNCHANGED <<earlier, variant, token, verbose, request,
                   max_iterations, messages, iteration, response,
                   idx, assistant_content, tool_results, has_tool_use, final_text,
                   ret, calls, invocations, reply, history>>

\* if not scholar_gateway_token: return the error string
ScholarToken ==
    /\ variant = "scholar"
    /\ pc = "entry"
    /\ IF token
          THEN pc' = "while" /\ ret' = ret
          ELSE pc' = "notoken" /\ ret' = NoTokenMessage
    /\ UNCHANGED <<earlier, variant, token, verbose, request,
                   max_iterations, messages, iteration, response,
                   idx, assistant_content, tool_results, has_tool_use, final_text,
                   calls, invocations, reply, history>>

DelegatedWhile ==
    /\ pc = "while"
    /\ IF LoopCondition(iteration, max_iterations)
          THEN /\ iteration' = iteration + 1
               /\ pc' = "create"
               /\ ret' = ret
          ELSE /\ iteration' = iteration
               /\ pc' = "aborted"
               /\ ret' = Sentinel
    /\ UNCHANGED <<earlier, variant, token, verbose, request,
                   max_iterations, messages, response, idx,
                   assistant_content, tool_results, has_tool_use, final_text,
                   calls, invocations, reply, history>>

\* client.beta.messages.create: a response, or an exception nothing catches.
DelegatedCreateFrom(responses) ==
    /\ pc = "create"
    /\ calls' = calls + 1
    /\ \/ \E r \in responses :
            /\ response' = r
            /\ history' = Append(history, Observed(variant, r))
            /\ assistant_content' = <<>>
            /\ has_tool_use' = FALSE
            /\ final_text' = ""
            /\ idx' = 1
            /\ pc' = "for"
       \/ /\ pc' = "raised"
          /\ UNCHANGED <<response, history, assistant_content, has_tool_use,
                         final_text, idx>>
    /\ request' = CreateRequest(variant, token, messages)
    /\ UNCHANGED <<earlier, variant, token, verbose, max_iterations, messages, iteration,
                   ret,
                   tool_results, invocations, reply>>

DelegatedCreate == DelegatedCreateFrom(Responses(variant))

\* mutant: a tool-result block counts as tool use too
IsDelegatedToolUseOrResult(block) == block.type \in {"mcp_tool_use", "mcp_tool_result"}

\* elif block.type == "mcp_tool_use"
IsDelegatedToolUse(block) == block.type = "mcp_tool_use"

\* ', '.join(ids[:n]): raises on ids that cannot be sliced and on one of
\* the first n that is not a string.
JoinRaises(input, key, n) ==
    LET ids == Get(input, key, PyList(<<>>))
    IN  IF ids.py = "list"
            THEN \E i \in 1..Len(ids.items) : i <= n /\ ids.items[i].py # "str"
            ELSE ids.py # "str"

\* if verbose: the prints of an mcp_tool_use block. run_pubmed_agent joins
\* the pmids of get_article_metadata and the pmc_ids of
\* get_full_text_article, run_research_agent those and the pmids of
\* find_related_articles, run_scholar_agent joins nothing.
DelegatedPrintRaises(v, block) ==
    \/ /\ v \in {"pubmed", "research"}
       /\ block.name = "get_article_metadata"
       /\ JoinRaises(block.input, "pmids", 5)
    \/ /\ v \in {"pubmed", "research"}
       /\ block.name = "get_full_text_article"
       /\ JoinRaises(block.input, "pmc_ids", 3)
    \/ /\ v = "research"
       /\ block.name = "find_related_articles"
       /\ JoinRaises(block.input, "pmids", 3)

\* One pass of the body of: for block in response.content
DelegatedBlock ==
    /\ pc = "for"
    /\ idx <= Len(response.content)
    /\ LET block == response.content[idx] IN
        /\ assistant_content' = AppendBlock(assistant_content, block)
        /\ \/ /\ block.type = "text"
              /\ final_text' = AccumulateText(final_text, block)
              /\ UNCHANGED <<pc, has_tool_use>>
           \/ /\ block.type # "text"
              /\ IsDelegatedToolUse(block)
              /\ has_tool_use' = TRUE
              /\ pc' = (IF verbose /\ block.type = "mcp_tool_use"
                                  /\ DelegatedPrintRaises(variant, block)
                           THEN "print_raised" ELSE pc)
              /\ UNCHANGED final_text
           \/ /\ block.type # "text"
              /\ ~IsDelegatedToolUse(block)
              /\ UNCHANGED <<pc, final_text, has_tool_use>>
    /\ idx' = idx + 1
    /\ UNCHANGED <<earlier, variant, token, verbose, request,
                   max_iterations, messages, iteration,
                   response, ret, calls, history, tool_results, invocations, reply>>

DelegatedCheck ==
    /\ pc = "for"
    /\ idx > Len(response.content)
    /\ IF EndTurnWithoutToolUse(response.stop_reason, has_tool_use)
          THEN /\ pc' = "done"
               /\ ret' = final_text
               /\ UNCHANGED messages
          ELSE IF has_tool_use
          THEN /\ messages' = AppendContinuation(messages, assistant_content)
               /\ pc' = "while"
               /\ UNCHANGED ret
          ELSE /\ pc' = "done"
               /\ ret' = final_text
               /\ UNCHANGED messages
    /\ UNCHANGED <<earlier, variant, token, verbose, request,
                   max_iterations, iteration, response, idx,
                   assistant_content, tool_results, has_tool_use, final_text,
                   calls, invocations, reply, history>>

PubmedWhile == variant = "pubmed" /\ DelegatedWhile
PubmedCreate == variant = "pubmed" /\ DelegatedCreate
PubmedBlock == variant = "pubmed" /\ DelegatedBlock
PubmedCheck == variant = "pubmed" /\ DelegatedCheck

ResearchWhile == variant = "research" /\ DelegatedWhile
ResearchCreate == variant = "research" /\ DelegatedCreate
ResearchBlock == variant = "research" /\ DelegatedBlock
ResearchCheck == variant = "research" /\ DelegatedCheck

ScholarWhile == variant = "scholar" /\ DelegatedWhile
ScholarCreate == variant = "scholar" /\ DelegatedCreate
ScholarBlock == variant = "scholar" /\ DelegatedBlock
ScholarCheck == variant = "scholar" /\ DelegatedCheck

\* ------------------------------------------------------- specification
Next ==
    \/ JiminyWhile \/ JiminyCreate \/ JiminyBlock \/ JiminyCheck
    \/ PubmedWhile \/ PubmedCreate \/ PubmedBlock \/ PubmedCheck
    \/ ResearchWhile \/ ResearchCreate \/ ResearchBlock \/ ResearchCheck
    \/ ScholarToken \/ ScholarWhile \/ ScholarCreate \/ ScholarBlock \/ ScholarCheck

Spec == Init /\ [][Next]_vars

\* mutant: the transcript is a list that outlives the call
RunEntryKeeping(msgs, question) == Append(msgs, [role |-> "user", content |-> question])

\* messages = [{"role": "user", "content": research_question}]
RunEntry(msgs, question) == <<[role |-> "user", content |-> question]>>

\* The function is called again in the same process, after an earlier call
\* has returned or raised: a new frame, in which every local is assigned
\* before it is read.
NewRun ==
    /\ pc \in {"done", "aborted", "notoken", "raised", "print_raised"}
    /\ Len(earlier) + 1 < MaxRuns
    /\ earlier' = Append(earlier, Len(messages))
    /\ messages' = RunEntry(messages, Question)
    /\ iteration' = 0
    /\ pc' = (IF variant = "scholar" THEN "entry" ELSE "while")
    /\ response' = NoResponse
    /\ idx' = 0
    /\ assistant_content' = <<>>
    /\ tool_results' = <<>>
    /\ has_tool_use' = FALSE
    /\ final_text' = ""
    /\ ret' = ""
    /\ calls' = 0
    /\ invocations' = 0
    /\ reply' = NoReply
    /\ history' = <<>>
    /\ request' = NoRequest
    /\ UNCHANGED <<variant, token, verbose, max_iterations>>

\* Runs one after the other, each answered by a text or by one tool use.
RunResponses ==
    { [stop_reason |-> "end_turn", content |-> <<TextBlock("42")>>],
      [stop_reason |-> "tool_use",
       content |-> <<IF variant = "jiminy" THEN ToolUseBlock("toolu_a")
                                           ELSE McpToolUseBlock("mcptoolu_a")>>] }
RunsJiminyCreate == JiminyCreateFrom(RunResponses)
RunsDelegatedWhile == variant \in Delegated /\ DelegatedWhile
RunsDelegatedCreate == variant \in Delegated /\ DelegatedCreateFrom(RunResponses)
RunsDelegatedBlock == variant \in Delegated /\ DelegatedBlock
RunsDelegatedCheck == variant \in Delegated /\ DelegatedCheck
NextRuns ==
    \/ JiminyWhile \/ RunsJiminyCreate \/ JiminyBlock \/ JiminyCheck
    \/ ScholarToken
    \/ RunsDelegatedWhile \/ RunsDelegatedCreate \/ RunsDelegatedBlock \/ RunsDelegatedCheck
    \/ NewRun
SpecRuns == Init /\ [][NextRuns]_vars

\* One run where a step that can be taken is taken: the blocking calls
\* (client.messages.create, client.post) come back, by returning or
\* raising. The answers: each stop reason with a text, with a tool use, and
\* with two blocks of which one is a tool use.
AnswerContents ==
    IF variant = "jiminy"
        THEN { <<TextBlock("42")>>,
               <<ToolUseBlock("toolu_a")>>,
               <<TextBlock("42"), ToolUseBlock("toolu_a")>> }
        ELSE { <<TextBlock("42")>>,
               <<McpToolUseBlock("mcptoolu_a")>>,
               <<McpToolUseBlock("mcptoolu_a"), McpToolResultBlock("mcptoolu_a")>> }
AnswerResponses ==
    {[stop_reason |-> s, content |-> c] : s \in StopReasons, c \in AnswerContents}
FairJiminyCreate == JiminyCreateFrom(AnswerResponses)
FairDelegatedCreate == variant \in Delegated /\ DelegatedCreateFrom(AnswerResponses)
NextFair ==
    \/ JiminyWhile \/ FairJiminyCreate \/ JiminyBlock \/ JiminyCheck
    \/ ScholarToken
    \/ RunsDelegatedWhile \/ FairDelegatedCreate \/ RunsDelegatedBlock \/ RunsDelegatedCheck
FairSpec == Init /\ [][NextFair]_vars /\ WF_vars(NextFair)

\* The three Delegated loops answered with blocks of every type, the
\* tool_use blocks of the other loop among them.
MixedBlocks ==
    { TextBlock("42"), McpToolUseBlock("mcptoolu_a"), McpToolResultBlock("mcptoolu_a"),
      ToolUseBlock("toolu_a") }
MixedContents == UNION {[1..n -> MixedBlocks] : n \in {1, 2}}
MixedResponses ==
    {[stop_reason |-> s, content |-> c] : s \in StopReasons, c \in MixedContents}
MixedCreate == variant \in Delegated /\ DelegatedCreateFrom(MixedResponses)
InitMixed == Init /\ variant \in Delegated
NextMixed ==
    \/ ScholarToken
    \/ RunsDelegatedWhile \/ MixedCreate \/ RunsDelegatedBlock \/ RunsDelegatedCheck
SpecMixed == InitMixed /\ [][NextMixed]_vars

\* run_jiminy_agent called with verbose True and with verbose False, for
\* tool_use blocks of several tools and results that are not all strings.
BibliographyInput(keys) == [bibtex_keys |-> PyList(keys)]
VerboseContents ==
    { <<TextBlock("42")>>,
      <<ToolUseBlock("toolu_a")>>,
      <<ToolUseBlockOf("toolu_a", "generate_bibliography",
                       BibliographyInput(<<PyString("smith2020")>>))>>,
      <<ToolUseBlockOf("toolu_a", "generate_bibliography",
                       BibliographyInput(<<PyInt(2020)>>))>>,
      <<ToolUseBlockOf("toolu_b", "get_paper_details", [bibtex_key |-> "smith2020"]),
        ToolUseBlock("toolu_a")>> }
VerboseResponses ==
    {[stop_reason |-> s, content |-> c] : s \in StopReasons, c \in VerboseContents}
VerboseReplies ==
    { Exception("timed out"),
      Json(Body("COMPLETED", Absent, PyDict([result |-> "found"]))),
      Json(Body("COMPLETED", Absent,
                PyDictTyped([result |-> PyNone], [result |-> "NoneType"]))),
      Json(Body("COMPLETED", Absent,
                PyDictTyped([result |-> PyInt(7)], [result |-> "int"]))),
      Json(Body("IN_QUEUE", Absent, AbsentOutput)) }
VerboseCreate == JiminyCreateFrom(VerboseResponses)
VerboseBlock == JiminyBlockWith(VerboseReplies)
InitVerbose == InitWith(BOOLEAN) /\ variant = "jiminy"
NextVerbose == JiminyWhile \/ VerboseCreate \/ VerboseBlock \/ JiminyCheck
SpecVerbose == InitVerbose /\ [][NextVerbose]_vars

\* The four functions called with verbose True and with verbose False and
\* answered alike: with a text, or with one tool-use block of their own
\* kind whose identifiers are strings or numbers.
PmidsInput(ids) == [pmids |-> PyList(ids)]
PrintContents(v) ==
    IF v = "jiminy"
        THEN { <<TextBlock("42")>>,
               <<ToolUseBlock("toolu_a")>>,
               <<ToolUseBlockOf("toolu_a", "generate_bibliography",
                                BibliographyInput(<<PyString("smith2020")>>))>>,
               <<ToolUseBlockOf("toolu_a", "generate_bibliography",
                                BibliographyInput(<<PyInt(2020)>>))>> }
        ELSE { <<TextBlock("42")>>,
               <<McpToolUseBlock("mcptoolu_a")>>,
               <<McpToolUseBlockOf("mcptoolu_a", "get_article_metadata",
                                   PmidsInput(<<PyString("31452104")>>))>>,
               <<McpToolUseBlockOf("mcptoolu_a", "get_article_metadata",
                                   PmidsInput(<<PyInt(31452104)>>))>>,
               <<McpToolUseBlockOf("mcptoolu_a", "find_related_articles",
                                   PmidsInput(<<PyInt(31452104)>>))>> }
PrintResponses(v) ==
    {[stop_reason |-> s, content |-> c] : s \in StopReasons, c \in PrintContents(v)}
PrintReplies == {Json(Body("COMPLETED", Absent, PyDict([result |-> "found"])))}
PrintJiminyCreate == JiminyCreateFrom(PrintResponses("jiminy"))
PrintJiminyBlock == JiminyBlockWith(PrintReplies)
PrintDelegatedCreate ==
    variant \in Delegated /\ DelegatedCreateFrom(PrintResponses(variant))
InitPrint == InitWith(BOOLEAN)
NextPrint ==
    \/ JiminyWhile \/ PrintJiminyCreate \/ PrintJiminyBlock \/ JiminyCheck
    \/ ScholarToken
    \/ RunsDelegatedWhile \/ PrintDelegatedCreate \/ RunsDelegatedBlock \/ RunsDelegatedCheck
SpecPrint == InitPrint /\ [][NextPrint]_vars

\* run_jiminy_agent against an endpoint that also answers with the job
\* statuses and with output.error.
EndpointCreate == JiminyCreateFrom(LoopResponses)
EndpointBlock == JiminyBlockWith(LoopReplies)
InitEndpoint == Init /\ variant = "jiminy"
NextEndpoint == JiminyWhile \/ EndpointCreate \/ EndpointBlock \/ JiminyCheck
SpecEndpoint == InitEndpoint /\ [][NextEndpoint]_vars

\* One call of call_jiminy_tool, for every body the endpoint can send:
\* a run of run_jiminy_agent with a single tool-use response.
CallCreate == JiminyCreateFrom(CallResponses)
CallBlock == JiminyBlockWith(AllReplies)
InitCall == Init /\ variant = "jiminy" /\ max_iterations = 1
NextCall == JiminyWhile \/ CallCreate \/ CallBlock \/ JiminyCheck
SpecCall == InitCall /\ [][NextCall]_vars

\* ================================================================ claims
RunningStates == {"entry", "while", "create", "for"}
\* The run has returned a string (ret); "raised" is the other way out.
HasReturned == pc \in {"done", "aborted", "notoken"}
Terminal == HasReturned \/ pc \in {"raised", "print_raised"}
\* The for loop over response.content has run out.
ForDone == pc = "for" /\ idx > Len(response.content)
IsError(r) == "is_error" \in DOMAIN r /\ r.is_error
NumToolUse(c) == Cardinality({i \in 1..Len(c) : c[i].type = "tool_use"})

\* Every one of max_iterations responses held a tool-use block.
EveryResponseUsedTools ==
    /\ Len(history) = max_iterations
    /\ \A k \in 1..Len(history) : history[k].tool_use

\* The text blocks of all responses received, joined in order.
RECURSIVE AllText(_)
AllText(h) ==
    IF h = <<>> THEN "" ELSE AllText(SubSeq(h, 1, Len(h) - 1)) \o h[Len(h)].text

\* C1: a run with ceiling max_iterations makes at most max_iterations
\* inference calls, whatever the responses are.
C1_AtMostMaxIterationsCalls ==
    /\ calls <= max_iterations
    /\ Len(history) <= max_iterations

C1_Witness ==
    /\ pc = "aborted"
    /\ max_iterations = 2
    /\ calls = max_iterations

\* C2 as stated: at the end of a run, the returned string is the sentinel
\* if and only if each of the max_iterations responses held a tool-use block.
C2_SentinelIffEveryResponseUsedTools ==
    Terminal => ((HasReturned /\ ret = Sentinel) <=> EveryResponseUsedTools)

\* C2 amended: the run ends in ABORTED (the return after the loop, which
\* returns the sentinel after exactly max_iterations calls) if and only if
\* each of the max_iterations responses held a tool-use block; a run that
\* ends otherwise returns the sentinel string only as the text of its last
\* response.
C2_AbortedIffEveryResponseUsedTools ==
    Terminal =>
        /\ (pc = "aborted") <=> EveryResponseUsedTools
        /\ pc = "aborted" => (ret = Sentinel /\ calls = max_iterations)
        /\ (HasReturned /\ ret = Sentinel /\ pc # "aborted") =>
                (pc = "done" /\ history[Len(history)].text = Sentinel)

C2_Witness ==
    /\ pc = "aborted"
    /\ ret = Sentinel
    /\ max_iterations = 2
    /\ Len(history) = 2
    /\ history[1].tool_use /\ history[2].tool_use

\* C3: a response with stop_reason end_turn and no tool-use block ends the
\* run in DONE: while it is processed nothing is appended and no call or
\* tool invocation is made, the run returns the text of that response, and
\* nothing happens after DONE.
C3_EndTurnWithoutToolUseIsDone ==
    [][ /\ (/\ pc = "for"
            /\ response.stop_reason = "end_turn"
            /\ ~ContainsToolUse(variant, response.content))
           => /\ messages' = messages
              /\ calls' = calls
              /\ invocations' = invocations
              /\ pc' \in {"for", "done"}
              /\ (idx > Len(response.content)
                    => (pc' = "done" /\ ret' = TextOf(response.content)))
        /\ pc = "done" => UNCHANGED <<messages, calls, invocations, ret, pc>>
      ]_vars

C3_Witness ==
    /\ pc = "done"
    /\ response.stop_reason = "end_turn"
    /\ calls = 1
    /\ ret = "42"
    /\ Len(messages) = 1

\* C4: after a response, the loop stays RUNNING if and only if the response
\* holds a tool-use block, whatever stop_reason is; without one the run is
\* DONE and returns the text of the response.
C4_RunningIffToolUse ==
    [][ ForDone =>
          /\ (pc' \in RunningStates) <=> ContainsToolUse(variant, response.content)
          /\ ~ContainsToolUse(variant, response.content)
                => (pc' = "done" /\ ret' = TextOf(response.content) /\ messages' = messages)
      ]_vars

C4_Witness ==
    /\ pc = "done"
    /\ response.stop_reason = "max_tokens"
    /\ response.content = <<>>
    /\ ret = ""

\* C5: in run_jiminy_agent a response with a tool-use block appends exactly
\* two messages, the assistant message with all blocks of the response in
\* order and then one user message with all its tool results, and the loop
\* stays RUNNING; no other step appends anything.
C5_LocalAppendsAssistantThenResults ==
    [][ variant = "jiminy" =>
          IF ForDone /\ ContainsToolUse(variant, response.content)
          THEN /\ messages' =
                    messages \o <<[role |-> "assistant", content |-> response.content],
                                  [role |-> "user", content |-> tool_results]>>
               /\ Len(tool_results) = NumToolUse(response.content)
               /\ \A j \in 1..Len(tool_results) : tool_results[j].type = "tool_result"
               /\ pc' = "while"
          ELSE messages' = messages
      ]_vars

C5_Witness ==
    /\ variant = "jiminy"
    /\ pc = "while"
    /\ Len(messages) = 3
    /\ messages[2].role = "assistant"
    /\ NumToolUse(messages[2].content) = 2
    /\ messages[3].role = "user"
    /\ Len(messages[3].content) = 2

\* C6: in the three Delegated loops a response with a tool-use block
\* appends exactly two messages, the assistant message with the blocks of
\* the response and then the user message with the fixed instruction; no
\* other step appends anything, and no tool result is ever collected.
C6_DelegatedAppendsAssistantThenInstruction ==
    [][ (variant \in Delegated) =>
          /\ IF ForDone /\ ContainsToolUse(variant, response.content)
             THEN /\ messages' =
                        messages \o <<[role |-> "assistant", content |-> response.content],
                                      [role |-> "user", content |-> Continuation]>>
                  /\ pc' = "while"
             ELSE messages' = messages
          /\ Len(tool_results') = 0
      ]_vars

C6_Witness ==
    /\ variant \in Delegated
    /\ pc = "while"
    /\ Len(messages) = 3
    /\ messages[2].role = "assistant"
    /\ Len(messages[2].content) = 2
    /\ messages[3] = [role |-> "user", content |-> Continuation]

C8_TranscriptAppendOnly ==
    [][ /\ Len(messages) <= Len(messages')
        /\ \A k \in 1..Len(messages) : messages'[k] = messages[k]
      ]_vars

C8_Witness ==
    /\ Len(messages) = 5
    /\ pc = "aborted"

\* C9: in run_jiminy_agent every user message after the question follows an
\* assistant message, each of its tool results carries the id of exactly
\* one tool-use block of that assistant message, and each tool-use block of
\* that assistant message has exactly one tool result.
C9_ResultsMatchToolUses ==
    variant = "jiminy" =>
        \A k \in 2..Len(messages) :
            messages[k].role = "user" =>
                LET a == messages[k - 1].content
                    u == messages[k].content
                IN  /\ messages[k - 1].role = "assistant"
                    /\ \A j \in 1..Len(u) :
                          /\ u[j].type = "tool_result"
                          /\ Cardinality({i \in 1..Len(a) :
                                /\ a[i].type = "tool_use"
                                /\ a[i].id = u[j].tool_use_id}) = 1
                    /\ \A i \in 1..Len(a) :
                          a[i].type = "tool_use" =>
                              Cardinality({j \in 1..Len(u) :
                                  u[j].tool_use_id = a[i].id}) = 1

C9_Witness ==
    /\ variant = "jiminy"
    /\ Len(messages) = 5
    /\ Len(messages[5].content) = 2
    /\ IsError(messages[5].content[1])
    /\ ~IsError(messages[5].content[2])
    /\ messages[5].content[1].tool_use_id = "toolu_b"

\* C10: in run_jiminy_agent an exception of a tool invocation stays in the
\* loop: the step appends a tool result with is_error true and the id of
\* the tool-use block, the run never ends by raising except out of the
\* inference call, the results reach the transcript and the loop goes on to
\* the next inference call that the ceiling allows.
C10_ToolExceptionBecomesErrorResult ==
    [][ variant = "jiminy" =>
          /\ (/\ pc = "for"
              /\ invocations' = invocations + 1
              /\ call_jiminy_tool(reply').raised)
                => /\ pc' = "for"
                   /\ idx' = idx + 1
                   /\ Len(tool_results') = Len(tool_results) + 1
                   /\ IsError(tool_results'[Len(tool_results')])
                   /\ tool_results'[Len(tool_results')].tool_use_id
                          = response.content[idx].id
                   /\ tool_results'[Len(tool_results')].type = "tool_result"
          /\ pc' = "raised" => pc = "create"
          /\ (ForDone /\ \E j \in 1..Len(tool_results) : IsError(tool_results[j]))
                => /\ pc' = "while"
                   /\ messages'[Len(messages')].content = tool_results
          /\ (pc = "while" /\ iteration < max_iterations) => pc' = "create"
      ]_vars

C10_Witness ==
    /\ variant = "jiminy"
    /\ pc = "for"
    /\ calls = 2
    /\ Len(messages) = 3
    /\ \E j \in 1..Len(messages[3].content) : IsError(messages[3].content[j])

\* ---------------------------------------------------------------------
\* The block the for loop has just passed, and the result collected for it.
JustInvoked ==
    /\ pc = "for"
    /\ idx > 1
    /\ response.content[idx - 1].type = "tool_use"
LastResult == tool_results[Len(tool_results)]

\* The endpoint answered, and the answer reports a job that did not
\* succeed: a job status, or an output with an error and no result.
JobFailed(r) ==
    /\ r.kind = "json"
    /\ \/ Get(r.body, "status", "<None>") \in {"FAILED", "IN_QUEUE", "IN_PROGRESS"}
       \/ LET output == Get(r.body, "output", EmptyDict)
          IN  /\ output.py = "dict"
              /\ "error" \in DOMAIN output.d
              /\ "result" \notin DOMAIN output.d

\* C11: in run_jiminy_agent, when the endpoint reports the job as IN_QUEUE,
\* IN_PROGRESS or FAILED, or its output holds an error, the tool result of
\* that tool-use block carries is_error = true and the run goes on.
C11_JobFailureIsFlaggedError ==
    (JustInvoked /\ JobFailed(reply)) => IsError(LastResult)

\* What the code does instead: the error string is the content of an
\* ordinary tool result, and the run goes on.
C11_JobFailureIsOrdinaryResult ==
    (JustInvoked /\ JobFailed(reply)) =>
        /\ LastResult = ToolResult(response.content[idx - 1], call_jiminy_tool(reply).value)
        /\ ~IsError(LastResult)
C11_Witness ==
    /\ JustInvoked
    /\ reply = Json(Body("IN_QUEUE", Absent, AbsentOutput))
    /\ LastResult.content = "Error: Job in queue - try again later"

\* ---------------------------------------------------------------------
\* The body of the endpoint's answer to the last request, its keys, and
\* whether its output is a mapping (an absent output counts as the empty one).
ReplyBody == reply.body
ReplyHas(key) == key \in DOMAIN ReplyBody
ReplyOutputIsMapping == ~ReplyHas("output") \/ ReplyBody.output.py = "dict"
OutputHas(key) ==
    /\ ReplyHas("output")
    /\ ReplyBody.output.py = "dict"
    /\ key \in DOMAIN ReplyBody.output.d

CallRaised == calls = Len(history) + 1

\* C13: in all four loops an exception of the inference call ends the run:
\* nothing is returned, and no call, tool request or append follows.
C13_CreateExceptionEndsRun ==
    /\ [](calls = Len(history) \/ (CallRaised /\ pc = "raised" /\ ret = ""))
    /\ [][ /\ pc # "raised"
           /\ (pc' = "raised") =>
                (pc = "create" /\ invocations' = invocations /\ messages' = messages)
         ]_vars
\* The second call raises, after a first response whose tools were used.
C13_Witness ==
    /\ pc = "raised"
    /\ variant = "jiminy"
    /\ calls = 2
    /\ Len(history) = 1
    /\ invocations > 0
    /\ ~HasReturned

\* ---------------------------------------------------------------------
\* The ids of the tool_use blocks of a content, and the ids the tool
\* results answer, both in order.
RECURSIVE ToolUseIdsOf(_)
ToolUseIdsOf(c) ==
    IF c = <<>> THEN <<>>
    ELSE LET front == ToolUseIdsOf(SubSeq(c, 1, Len(c) - 1))
             last == c[Len(c)]
         IN  IF last.type = "tool_use" THEN Append(front, last.id) ELSE front
ResultIds(results) == [i \in 1..Len(results) |-> results[i].tool_use_id]

\* C14: in run_jiminy_agent the tool_use blocks of a response are called
\* one per pass of the for loop, in the order of the response; the next
\* inference call comes only after all of them; the tool results of the
\* appended user message are in the order of the tool_use blocks.
C14_ToolsInvokedInResponseOrder ==
    /\ [](variant = "jiminy" =>
            /\ (pc = "for") =>
                    ResultIds(tool_results)
                        = ToolUseIdsOf(SubSeq(response.content, 1, idx - 1))
            /\ (pc \in {"while", "create"} /\ calls > 0) =>
                    ResultIds(tool_results) = ToolUseIdsOf(response.content)
            /\ \A i \in 2..(Len(messages) - 1) :
                    (messages[i].role = "assistant") =>
                        ResultIds(messages[i + 1].content)
                            = ToolUseIdsOf(messages[i].content))
    /\ [][ (invocations' # invocations) =>
                /\ invocations' = invocations + 1
                /\ calls' = calls
                /\ pc = "for" /\ pc' = "for"
                /\ response.content[idx].type = "tool_use"
                /\ idx' = idx + 1
                /\ tool_results'[Len(tool_results')].tool_use_id = response.content[idx].id
         ]_vars
\* Two tool_use blocks in one response, answered in their order.
C14_Witness ==
    /\ variant = "jiminy"
    /\ pc = "while"
    /\ Len(messages) = 3
    /\ ToolUseIdsOf(messages[2].content) = <<"toolu_b", "toolu_a">>
    /\ ResultIds(messages[3].content) = <<"toolu_b", "toolu_a">>
    /\ invocations = 2
    /\ calls = 1

\* ---------------------------------------------------------------------
\* C16: every run starts with iteration 0 and a transcript of the one user
\* message with the question, and that transcript is what its first
\* inference call gets, also when an earlier run of the function in the
\* same process ended with a longer transcript.
C16_RunStartsFromQuestionAlone ==
    (calls = 0 /\ pc \in {"entry", "while", "create"}) =>
        /\ Len(messages) = 1
        /\ messages[1] = [role |-> "user", content |-> Question]
        /\ iteration = (IF pc = "create" THEN 1 ELSE 0)
\* The first call of a second run, after a run that left three messages.
C16_Witness ==
    /\ Len(earlier) = 1
    /\ earlier[1] > 1
    /\ pc = "create"
    /\ calls = 0
    /\ messages = <<[role |-> "user", content |-> Question]>>

\* ---------------------------------------------------------------------
\* The first k responses each held a tool-use block and response k + 1,
\* the last one received, held none.
ToolUsesThenNone(k) ==
    /\ Len(history) = k + 1
    /\ \A j \in 1..k : history[j].tool_use
    /\ ~history[k + 1].tool_use

\* C17: when the first k responses (k < max_iterations) each hold a
\* tool-use block and response k + 1 holds none, the run makes exactly
\* k + 1 inference calls, its transcript ends as the question followed by
\* k assistant and k user turns, and it returns the text of response k + 1.
C17_ToolRoundsThenAnswer ==
    \A k \in 0..(max_iterations - 1) :
        ToolUsesThenNone(k) =>
            /\ pc \in {"for", "done"}
            /\ calls = k + 1
            /\ Len(messages) = 1 + 2 * k
            /\ \A i \in 1..k :
                    /\ messages[2 * i].role = "assistant"
                    /\ messages[2 * i + 1].role = "user"
            /\ (pc = "done") => ret = history[k + 1].text
\* One round of tools, then the answer.
C17_Witness ==
    /\ ToolUsesThenNone(1)
    /\ pc = "done"
    /\ calls = 2
    /\ Len(messages) = 3
    /\ ret = "42"

\* ---------------------------------------------------------------------
\* What is left to do: the iterations left, and within one iteration the
\* call and the blocks not yet passed.
StepsPerIteration == MaxBlocks + 3
Measure ==
    LET left == max_iterations - iteration IN
    IF pc = "entry" THEN max_iterations * StepsPerIteration + 2
    ELSE IF pc = "while" THEN left * StepsPerIteration + 1
    ELSE IF pc = "create" THEN left * StepsPerIteration + StepsPerIteration
    ELSE IF pc = "for" THEN left * StepsPerIteration + StepsPerIteration - idx
    ELSE 0

\* C18: when every inference call and every tool request returns or
\* raises, each run ends: it returns a text, returns the sentinel, or the
\* exception of an inference call leaves it. No answers of the model keep
\* the loop going: every step uses up some of what is left to do.
C18_EveryRunEnds ==
    /\ <>Terminal
    /\ [](Measure >= 0)
    /\ [][Measure' < Measure]_vars
\* The longest run: every response used tools, up to the ceiling.
C18_Witness ==
    /\ pc = "aborted"
    /\ max_iterations = MaxIterations
    /\ calls = MaxIterations
    /\ Measure = 0

\* ---------------------------------------------------------------------
\* C19: the three loops that leave the tools to the inference service send
\* no request to the job endpoint, whatever blocks a response holds, and
\* the assistant message they append holds the blocks of the response,
\* tool-use and tool-result blocks too, unchanged and in order.
C19_DelegatedInvokesNothingKeepsBlocks ==
    /\ []((variant \in Delegated) => (invocations = 0 /\ reply = NoReply))
    /\ [][ (variant \in Delegated /\ Len(messages') > Len(messages)) =>
                /\ invocations' = 0
                /\ messages'[Len(messages) + 1]
                        = [role |-> "assistant", content |-> response.content]
         ]_vars
\* A response with a tool-use block and its tool-result block, appended whole.
C19_Witness ==
    /\ variant = "research"
    /\ Len(messages) = 3
    /\ messages[2].content
            = <<McpToolUseBlock("mcptoolu_a"), McpToolResultBlock("mcptoolu_a")>>
    /\ invocations = 0

\* ---------------------------------------------------------------------
\* The tool_use blocks of the responses received: those of the assistant
\* messages of the transcript and, inside the for loop, those passed so far.
RECURSIVE ToolUsesAppended(_)
ToolUsesAppended(msgs) ==
    IF msgs = <<>> THEN 0
    ELSE ToolUsesAppended(SubSeq(msgs, 1, Len(msgs) - 1))
            + (IF msgs[Len(msgs)].role = "assistant"
                  THEN NumToolUse(msgs[Len(msgs)].content) ELSE 0)
ToolUsesPassed ==
    ToolUsesAppended(messages)
        + (IF pc = "for" THEN NumToolUse(SubSeq(response.content, 1, idx - 1)) ELSE 0)

\* C20: in run_jiminy_agent each tool_use block causes one request to the
\* job endpoint and no more: whatever the request came to (a job status, a
\* failure, an exception), the loop moves to the next block; the requests
\* of a run are as many as the tool_use blocks of its responses.
C20_OneRequestPerToolUse ==
    /\ []((variant = "jiminy") => (invocations = ToolUsesPassed))
    /\ [][ /\ (invocations' # invocations) =>
                    /\ invocations' = invocations + 1
                    /\ response.content[idx].type = "tool_use"
                    /\ idx' = idx + 1
                    /\ response' = response
           /\ (pc = "for" /\ pc' = "for") => (idx' = idx + 1)
         ]_vars
\* Two tool_use blocks, one answered by a job in progress and one by a
\* failed job: two requests, and the run is back at the loop test.
C20_Witness ==
    /\ pc = "while"
    /\ Len(messages) = 3
    /\ NumToolUse(messages[2].content) = 2
    /\ messages[3].content[1].content = "Error: Job in progress - try again later"
    /\ messages[3].content[2].content = "Error: Unknown error"
    /\ invocations = 2

\* ---------------------------------------------------------------------
StrictPrefix(a, b) == Len(a) < Len(b) /\ SubSeq(b, 1, Len(a)) = a

\* C21: every inference call of a run gets the whole transcript built so
\* far, which extends the transcript of the call before it, and the same
\* system prompt, tools and server descriptors as the call before it.
C21_CallGetsWholeTranscript ==
    [][ (calls' = calls + 1) =>
            /\ request'.messages = messages
            /\ request'.system = SystemPrompt(variant)
            /\ (calls > 0) =>
                    /\ StrictPrefix(request.messages, request'.messages)
                    /\ request'.system = request.system
                    /\ request'.tools = request.tools
                    /\ request'.mcp_servers = request.mcp_servers
      ]_vars
\* The second call of run_research_agent, with the three messages so far.
C21_Witness ==
    /\ variant = "research"
    /\ calls = 2
    /\ Len(request.messages) = 3
    /\ request.messages = messages
    /\ Len(request.mcp_servers) = 3

\* ---------------------------------------------------------------------
\* C24: verbose changes only what is printed: with verbose True the run
\* goes on as it does with verbose False, and every tool result is the one
\* the same block and the same answer of the endpoint give with verbose
\* False, also for results that are None or a number.
C24_VerboseChangesNothing ==
    /\ pc # "print_raised"
    /\ JustInvoked => (LastResult = TryCall(response.content[idx - 1], reply, FALSE))

\* What the code does: with verbose True a search_papers result that is
\* None or a number ends as an error result, though the call returned.
C24_Witness ==
    /\ verbose
    /\ JustInvoked
    /\ ~call_jiminy_tool(reply).raised
    /\ call_jiminy_tool(reply).py = "NoneType"
    /\ IsError(LastResult)
    /\ LastResult.content = "Error calling tool: argument of type 'NoneType' is not iterable"

\* ---------------------------------------------------------------------
\* C22: in run_jiminy_agent a call that raises does not stop the for loop:
\* the tool_use blocks after it are called too, the appended user message
\* holds one tool result per tool_use block, and is_error is set on
\* exactly the results of the calls that raised.
C22_ErrorFlagIffCallRaised ==
    /\ JustInvoked => (IsError(LastResult) <=> call_jiminy_tool(reply).raised)
    /\ (variant = "jiminy" /\ pc = "while" /\ calls > 0) =>
            Len(messages[Len(messages)].content)
                = NumToolUse(messages[Len(messages) - 1].content)
\* A first call that raises, a second that returns: two results, the
\* first flagged and the second not.
C22_Witness ==
    /\ pc = "while"
    /\ Len(messages) = 3
    /\ Len(messages[3].content) = 2
    /\ IsError(messages[3].content[1])
    /\ ~IsError(messages[3].content[2])
    /\ messages[3].content[2].content = "found"

\* ---------------------------------------------------------------------
\* The tool-use iterations completed: the responses received, but for the
\* one that ended the run in done.
CompletedToolIterations == IF pc = "done" THEN Len(history) - 1 ELSE Len(history)

\* C23: when an inference call is about to be made and when the run has
\* returned, the transcript has 1 + 2j messages, j the tool-use iterations
\* completed, with roles user, assistant, user, ... and a user message
\* last; the response that ends the run in done is not appended.
C23_RolesAlternate ==
    (pc = "create" \/ HasReturned) =>
        /\ Len(messages) = 1 + 2 * CompletedToolIterations
        /\ \A i \in 1..Len(messages) :
                messages[i].role = (IF i % 2 = 1 THEN "user" ELSE "assistant")
        /\ messages[Len(messages)].role = "user"
\* done at the second response: the first one is in the transcript, the
\* second is not.
C23_Witness ==
    /\ pc = "done"
    /\ Len(history) = 2
    /\ Len(messages) = 3
    /\ messages[2].role = "assistant"
    /\ messages[3].role = "user"
    /\ ret = "42"

\* ---------------------------------------------------------------------
\* The iteration in which message i of the transcript (i >= 2) was appended.
IterationOf(i) == i \div 2
\* Message i of the transcript was among the messages of an inference call.
WasSent(i) == i <= Len(request.messages)

\* C25: in run_jiminy_agent, once the run is over, the tool results of an
\* iteration have gone to an inference call exactly when the iteration was
\* not the last one allowed: the tools of a response received in
\* iteration max_iterations are called and their results appended, no
\* call gets them, and the run returns the abort message.
C25_LastIterationResultsNeverSent ==
    (variant = "jiminy" /\ Terminal) =>
        /\ \A i \in 2..Len(messages) :
                /\ messages[i].role = "user" => Len(messages[i].content) > 0
                /\ WasSent(i) <=> (IterationOf(i) < max_iterations)
        /\ invocations = ToolUsesAppended(messages)
        /\ (Len(messages) = 1 + 2 * max_iterations) =>
                (pc = "aborted" /\ ret = Sentinel /\ calls = max_iterations)
\* The only iteration allowed used two tools: both called, their results
\* appended after the only call was made.
C25_Witness ==
    /\ variant = "jiminy"
    /\ pc = "aborted"
    /\ max_iterations = 1
    /\ calls = 1
    /\ invocations = 2
    /\ Len(messages) = 3
    /\ Len(messages[3].content) = 2
    /\ Len(request.messages) = 1

\* ---------------------------------------------------------------------
\* The endpoint answered with a JSON object whose status is none of
\* FAILED, IN_QUEUE, IN_PROGRESS.
JobNotFailed ==
    /\ reply.kind = "json"
    /\ Get(ReplyBody, "status", "<None>") \notin {"FAILED", "IN_QUEUE", "IN_PROGRESS"}

\* C26: for such an answer call_jiminy_tool returns without raising,
\* whatever the output is: absent, None, a mapping, a string, a number.
C26_NoRaiseWhateverOutput ==
    (JustInvoked /\ JobNotFailed) => ~IsError(LastResult)

\* What the code does with an output that is None: the test
\* "result" in output raises, and the loop records the error.
C26_Witness ==
    /\ JustInvoked
    /\ JobNotFailed
    /\ ReplyHas("output")
    /\ ReplyBody.output = PyNone
    /\ call_jiminy_tool(reply).raised
    /\ LastResult
        = ToolResultError(response.content[idx - 1],
                          "argument of type 'NoneType' is not iterable")

\* ---------------------------------------------------------------------
HoldsType(c, type) == \E i \in 1..Len(c) : c[i].type = type

\* C27: in the three Delegated loops only an mcp_tool_use block makes the
\* run go on. A response with mcp_tool_result or tool_use blocks and no
\* mcp_tool_use block is a response without tool use: the run returns its
\* text and appends nothing.
C27_OnlyMcpToolUseContinues ==
    [][ (variant \in Delegated /\ pc = "for" /\ pc' # "for") =>
            IF HoldsType(response.content, "mcp_tool_use")
                THEN /\ pc' = "while"
                     /\ Len(messages') = Len(messages) + 2
                ELSE /\ pc' = "done"
                     /\ ret' = TextOf(response.content)
                     /\ messages' = messages
      ]_vars
\* A response of a tool_use block and an mcp_tool_result block, with the
\* stop reason tool_use: the run is done, nothing appended.
C27_Witness ==
    /\ variant = "scholar"
    /\ pc = "done"
    /\ response.stop_reason = "tool_use"
    /\ response.content = <<ToolUseBlock("toolu_a"), McpToolResultBlock("mcptoolu_a")>>
    /\ Len(messages) = 1
    /\ ret = ""

\* ---------------------------------------------------------------------
\* C28: run_scholar_agent without SCHOLAR_GATEWAY_TOKEN returns the fixed
\* message, raises nothing and makes no inference call; with a token its
\* first inference call gets the transcript of the question alone.
C28_NoTokenNoCall ==
    variant = "scholar" =>
        /\ ~token =>
              /\ pc \in {"entry", "notoken"}
              /\ calls = 0
              /\ request = NoRequest
              /\ pc = "entry" => ret = ""
              /\ pc = "notoken" => ret = NoTokenMessage
        /\ token =>
              /\ pc # "notoken"
              /\ ret # NoTokenMessage
              /\ calls = 1 =>
                    request = CreateRequest("scholar", TRUE,
                                  <<[role |-> "user", content |-> Question]>>)
C28_Witness ==
    /\ variant = "scholar"
    /\ ~token
    /\ pc = "notoken"
    /\ ret = NoTokenMessage
    /\ calls = 0
    /\ messages = <<[role |-> "user", content |-> Question]>>

\* ---------------------------------------------------------------------
\* The loop as one machine for the four functions: what a step does is
\* read off the text of the response, whether it holds a tool-use block of
\* the function's own kind, and its stop reason. The function shows only
\* in the kind of block and in the user message of a tool-use turn.
SameWhileStep ==
    pc = "while" =>
        IF iteration < max_iterations
            THEN pc' = "create" /\ iteration' = iteration + 1 /\ ret' = ret
            ELSE pc' = "aborted" /\ ret' = Sentinel
SameCreateStep ==
    (pc = "create" /\ pc' = "for") =>
        /\ calls' = calls + 1
        /\ request'.messages = messages
        /\ messages' = messages
SameCheckStep ==
    (pc = "for" /\ pc' # "for") =>
        LET n == Len(messages) IN
        IF HoldsType(response.content, OwnToolUseType(variant))
            THEN /\ pc' = "while"
                 /\ Len(messages') = n + 2
                 /\ SubSeq(messages', 1, n) = messages
                 /\ messages'[n + 1] = [role |-> "assistant", content |-> response.content]
                 /\ messages'[n + 2].role = "user"
                 /\ variant \in Delegated => messages'[n + 2].content = Continuation
                 /\ ret' = ret
            ELSE /\ pc' = "done"
                 /\ ret' = TextOf(response.content)
                 /\ messages' = messages

\* C29: the four loops are the same state machine. On responses that
\* agree in their text, in holding a tool-use block of the loop's own kind
\* and in their stop reason, the three Delegated loops build the same
\* transcript and return the same string, and the Local loop makes as many
\* calls, ends in the same state and returns the same string, with another
\* user message after a tool-use turn.
C29_VariantsAreOneMachine ==
    [][SameWhileStep /\ SameCreateStep /\ SameCheckStep]_vars
\* verbose run_pubmed_agent has raised on the numbers of a
\* get_article_metadata block, a response on which run_scholar_agent
\* appends the turn and goes on.
C29_Witness ==
    /\ variant = "pubmed"
    /\ verbose
    /\ pc = "print_raised"
    /\ response.content = <<McpToolUseBlockOf("mcptoolu_a", "get_article_metadata",
                                              PmidsInput(<<PyInt(31452104)>>))>>
    /\ ~DelegatedPrintRaises("scholar", response.content[1])
    /\ Len(messages) = 1
    /\ ret = ""

====
